---- MODULE Spec2Model ----
(***************************************************************************)
(* A model of curvesim's stableswap Pool (pool/stableswap/pool.py) and of  *)
(* the volume-limited arbitrage driver (pipelines/vol_limited_arb/         *)
(* trader.py).                                                             *)
(*                                                                         *)
(* Integers.  Python works on unbounded integers and the source's          *)
(* fixed-point bases are 10**18 (rates) and 10**10 (fees).  TLC's integers *)
(* are 32 bits wide, so the two bases are kept as named definitions with   *)
(* scaled-down values and every formula of the source is kept as it is     *)
(* written, floor divisions included.  Balances are a few tens of units.   *)
(*                                                                         *)
(* Errors.  A Python exception or a Newton loop that never ends is a       *)
(* tagged result: [st |-> "ok", v |-> value], [st |-> "ZeroDivisionError"],*)
(* [st |-> "AssertionError"], [st |-> "hang"].                             *)
(***************************************************************************)
EXTENDS Integers, Sequences, FiniteSets, TLC

VARIABLES
    A,               \* Pool.A, amplification coefficient
    n,               \* Pool.n, number of coins
    fee,             \* Pool.fee, parts per FEE_DENOMINATOR
    admin_fee,       \* Pool.admin_fee, parts per FEE_DENOMINATOR
    x,               \* Pool.x, balances, a function on 0..n-1
    tokens,          \* Pool.tokens, LP token supply
    admin_balances,  \* Pool.admin_balances, a function on 0..n-1
    last,            \* the last pool call: name, arguments, outcome, state before
    newton,          \* the state of one get_D call, one loop pass per step
    arb              \* the state of one multipair_optimal_arbitrage call

vars == <<A, n, fee, admin_fee, x, tokens, admin_balances, last, newton, arb>>

poolParams == <<A, n, fee, admin_fee>>
poolState == <<x, tokens, admin_balances>>

-----------------------------------------------------------------------------
(* Fixed-point bases, scaled to TLC's integers.                            *)

\* 10**18 in the source: the unit of the rate multipliers p.
PRECISION == 10
\* 10**10 in the source: the unit of fee and admin_fee.
FEE_DENOMINATOR == 10

-----------------------------------------------------------------------------
(* Bounds of the model.                                                    *)

\* Largest balance a pool operation may leave behind.
MaxBal == 40
\* Largest dx and largest deposit per coin in the pool specification.
MaxDx == 3
\* Longest sequence of pool calls in the pool specification.
MaxCalls == 2
\* Largest balance of a constructed pool in the get_D specification.
MaxXp == 34
\* Passes of get_D's while loop the get_D specification follows.
MaxPasses == 256
\* Resolution of a price: a float price f is the integer floor(f * PRICE_SCALE).
PRICE_SCALE == 100
\* Largest volume limit of a coin pair, in whole units of the in coin.
MaxLimit == 1
\* Largest bracket end get_in_amount returns to get_arb_trades.
MaxHigh == 2
\* Most residual evaluations of one solver call, the one of its result aside.
MaxProbes == 1

-----------------------------------------------------------------------------
(* Python arithmetic.                                                      *)

Abs(a) == IF a < 0 THEN 0 - a ELSE a

\* Python's a // b for b # 0: the floor of the quotient, for either sign of b.
PyDiv(a, b) == IF b > 0 THEN a \div b ELSE (0 - a) \div (0 - b)

\* F of the value v, v worked out once.
With(v, F(_)) == F(v)

Ok(v) == [st |-> "ok", v |-> v]
Err(e) == [st |-> e, v |-> 0]

Coins == 0 .. (n - 1)

RECURSIVE SumOver(_, _)
SumOver(f, S) == IF S = {} THEN 0
                 ELSE LET k == CHOOSE k \in S : TRUE IN f[k] + SumOver(f, S \ {k})

\* p = p or [10**18] * n
p == [k \in Coins |-> PRECISION]

\* def _xp(self)
Xp(bal) == [k \in Coins |-> PyDiv(bal[k] * p[k], PRECISION)]

-----------------------------------------------------------------------------
(* get_D                                                                   *)

\* for x in xp: D_P = D_P * D // (n * x), from coin k on
RECURSIVE GetD_DP(_, _, _, _)
GetD_DP(D_P, D, xp, k) ==
    IF k = n THEN Ok(D_P)
    ELSE IF n * xp[k] = 0 THEN Err("ZeroDivisionError")
    ELSE GetD_DP(PyDiv(D_P * D, n * xp[k]), D, xp, k + 1)

\* One pass of the body of get_D's while loop: the next D.
GetDStep(D, xp) ==
    LET S == SumOver(xp, Coins)
        Ann == A * n
        dp == GetD_DP(D, D, xp, 0)
        den == (Ann - 1) * D + (n + 1) * dp.v
    IN  IF dp.st # "ok" THEN dp
        ELSE IF den = 0 THEN Err("ZeroDivisionError")
        ELSE Ok(PyDiv((Ann * S + dp.v * n) * D, den))

\* while abs(D - Dprev) > 1.  The next D is a function of D alone, so a D that
\* comes back before the loop has ended comes back for ever: the call hangs.
RECURSIVE GetDLoop(_, _, _, _)
GetDLoop(D, Dprev, xp, seen) ==
    IF Abs(D - Dprev) <= 1 THEN Ok(D)
    ELSE IF D \in seen THEN Err("hang")
    ELSE LET nx == GetDStep(D, xp)
         IN  IF nx.st # "ok" THEN nx ELSE GetDLoop(nx.v, D, xp, seen \cup {D})

\* def get_D(self, xp, A)
GetD(xp) == GetDLoop(SumOver(xp, Coins), 0, xp, {})

\* def get_D_mem(self, balances, A)
GetDMem(bal) == GetD(Xp(bal))

-----------------------------------------------------------------------------
(* get_y, get_y_D                                                          *)

\* c = D; for y in xx: c = c * D // (y * n), xx being xp without coin skip
RECURSIVE GetY_C(_, _, _, _, _)
GetY_C(c, D, xx, skip, k) ==
    IF k = n THEN Ok(c)
    ELSE IF k = skip THEN GetY_C(c, D, xx, skip, k + 1)
    ELSE IF xx[k] * n = 0 THEN Err("ZeroDivisionError")
    ELSE GetY_C(PyDiv(c * D, xx[k] * n), D, xx, skip, k + 1)

\* while abs(y - y_prev) > 1: y = (y**2 + c) // (2 * y + b)
RECURSIVE NewtonY(_, _, _, _, _)
NewtonY(y, y_prev, c, b, seen) ==
    IF Abs(y - y_prev) <= 1 THEN Ok(y)
    ELSE IF y \in seen THEN Err("hang")
    ELSE IF 2 * y + b = 0 THEN Err("ZeroDivisionError")
    ELSE NewtonY(PyDiv(y * y + c, 2 * y + b), y, c, b, seen \cup {y})

\* def get_y(self, i, j, x, xp)
GetY(i, j, xi, xp) ==
    With(GetD(xp), LAMBDA Dr :
        LET D == Dr.v
            xx == [xp EXCEPT ![i] = xi]
            Ann == A * n
            b == SumOver(xx, Coins \ {j}) + PyDiv(D, Ann) - D
        IN  IF Dr.st # "ok" THEN Dr
            ELSE With(GetY_C(D, D, xx, j, 0), LAMBDA c1 :
                    IF c1.st # "ok" THEN c1
                    ELSE NewtonY(D, 0, PyDiv(c1.v * D, n * Ann), b, {})))

\* def get_y_D(self, A, i, xp, D)
GetYD(i, xp, D) ==
    LET Ann == A * n
        c1 == GetY_C(D, D, xp, i, 0)
        c == PyDiv(c1.v * D, n * Ann)
        b == SumOver(xp, Coins \ {i}) + PyDiv(D, Ann)
    IN  IF c1.st # "ok" THEN c1
        ELSE NewtonY(D, 0, c, b - D, {})

-----------------------------------------------------------------------------
(* Pool operations.  Each is an operator from the pool's state to the      *)
(* outcome of the call: st is "ok" or the error, and x, admin_balances and *)
(* tokens are the state the call leaves behind.  Every error of these      *)
(* methods is raised before their first assignment to self.                *)

Outcome(st, bal, adm, tok, ret) ==
    [st |-> st, x |-> bal, admin_balances |-> adm, tokens |-> tok, ret |-> ret]

Failed(st) == Outcome(st, x, admin_balances, tokens, <<>>)

\* The mutable triple of a pool, self.x, self.tokens, self.admin_balances.
PreState == [x |-> x, tokens |-> tokens, admin_balances |-> admin_balances]

\* def D(self, xp=None)
PoolD == GetD(Xp(x))

\* def exchange(self, i, j, dx), with fee_mul None as the constructor leaves it,
\* on the pool whose mutable triple is pl
ExchangeOn(pl, i, j, dx) ==
    With(GetY(i, j, Xp(pl.x)[i] + PyDiv(dx * p[i], PRECISION), Xp(pl.x)), LAMBDA yr :
    LET xp == Xp(pl.x)
        dy0 == xp[j] - yr.v - 1
        fee0 == PyDiv(dy0 * fee, FEE_DENOMINATOR)
        adm0 == PyDiv(fee0 * admin_fee, FEE_DENOMINATOR)
        rate == p[j]
        dy == PyDiv((dy0 - fee0) * PRECISION, rate)
        fee1 == PyDiv(fee0 * PRECISION, rate)
        adm1 == PyDiv(adm0 * PRECISION, rate)
        x1 == [pl.x EXCEPT ![i] = @ + dx]
        x2 == [x1 EXCEPT ![j] = @ - (dy + adm1)]
    IN  IF yr.st # "ok" THEN Outcome(yr.st, pl.x, pl.admin_balances, pl.tokens, <<>>)
        ELSE IF ~(dy >= 0)
             THEN Outcome("AssertionError", pl.x, pl.admin_balances, pl.tokens, <<>>)
        ELSE Outcome("ok", x2, [pl.admin_balances EXCEPT ![j] = @ + adm1], pl.tokens,
                     <<dy, fee1>>))

Exchange(i, j, dx) == ExchangeOn(PreState, i, j, dx)

\* The loop of calc_withdraw_one_coin over j: xp_reduced is xp itself, so the
\* list the loop reads is the list it writes; coin j is read before it is written.
RECURSIVE ReduceXp(_, _, _, _, _, _, _)
ReduceXp(xp, i, D0, D1, new_y, fee_, j) ==
    IF j = n THEN Ok(xp)
    ELSE IF D0 = 0 THEN Err("ZeroDivisionError")
    ELSE LET dx_expected == IF j = i THEN PyDiv(xp[j] * D1, D0) - new_y
                            ELSE xp[j] - PyDiv(xp[j] * D1, D0)
         IN  ReduceXp([xp EXCEPT ![j] = @ - PyDiv(fee_ * dx_expected, FEE_DENOMINATOR)],
                      i, D0, D1, new_y, fee_, j + 1)

\* def calc_withdraw_one_coin(self, token_amount, i, use_fee=True): <<dy, dy_fee>>
CalcWithdrawOneCoin(token_amount, i) ==
    LET xp == Xp(x)
        D0r == PoolD
        D0 == D0r.v
        D1 == D0 - PyDiv(token_amount * D0, tokens)
        nyr == GetYD(i, xp, D1)
        new_y == nyr.v
        dy_before_fee == PyDiv((xp[i] - new_y) * PRECISION, p[i])
        fee_ == PyDiv(fee * n, 4 * (n - 1))
        red == IF fee # 0 THEN ReduceXp(xp, i, D0, D1, new_y, fee_, 0) ELSE Ok(xp)
        xp_reduced == red.v
        y2 == GetYD(i, xp_reduced, D1)
        dy == PyDiv((xp_reduced[i] - y2.v - 1) * PRECISION, p[i])
    IN  IF D0r.st # "ok" THEN D0r
        ELSE IF tokens = 0 THEN Err("ZeroDivisionError")
        ELSE IF nyr.st # "ok" THEN nyr
        ELSE IF red.st # "ok" THEN red
        ELSE IF y2.st # "ok" THEN y2
        ELSE Ok(<<dy, dy_before_fee - dy>>)

\* def remove_liquidity_one_coin(self, token_amount, i)
RemoveLiquidityOneCoin(token_amount, i) ==
    LET c == CalcWithdrawOneCoin(token_amount, i)
        dy == c.v[1]
        dy_fee == c.v[2]
        adm == PyDiv(dy_fee * admin_fee, FEE_DENOMINATOR)
    IN  IF c.st # "ok" THEN Failed(c.st)
        ELSE Outcome("ok", [x EXCEPT ![i] = @ - (dy + adm)],
                     [admin_balances EXCEPT ![i] = @ + adm],
                     tokens - token_amount, <<dy, dy_fee>>)

\* def calc_token_amount(self, amounts, use_fee=True): [mint, fees]
CalcTokenAmount(amounts) ==
    LET D0r == GetDMem(x)
        D0 == D0r.v
        new_balances == [k \in Coins |-> x[k] + amounts[k]]
        D1r == GetDMem(new_balances)
        D1 == D1r.v
        fee_ == PyDiv(fee * n, 4 * (n - 1))
        fees == [k \in Coins |->
                    PyDiv(fee_ * Abs(PyDiv(D1 * x[k], D0) - new_balances[k]),
                          FEE_DENOMINATOR)]
        mint_balances == [k \in Coins |-> new_balances[k] - fees[k]]
        D2r == GetDMem(mint_balances)
    IN  IF D0r.st # "ok" THEN D0r
        ELSE IF D1r.st # "ok" THEN D1r
        ELSE IF D0 = 0 THEN Err("ZeroDivisionError")
        ELSE IF D2r.st # "ok" THEN D2r
        ELSE Ok([mint |-> PyDiv(tokens * (D2r.v - D0), D0), fees |-> fees])

\* def add_liquidity(self, amounts)
AddLiquidity(amounts) ==
    LET c == CalcTokenAmount(amounts)
        admin_fees == [k \in Coins |-> PyDiv(c.v.fees[k] * admin_fee, FEE_DENOMINATOR)]
    IN  IF c.st # "ok" THEN Failed(c.st)
        ELSE Outcome("ok",
                     [k \in Coins |-> x[k] + amounts[k] - admin_fees[k]],
                     [k \in Coins |-> admin_balances[k] + admin_fees[k]],
                     tokens + c.v.mint, <<c.v.mint>>)

\* def get_virtual_price(self), of a pool with balances bal and supply tok
VirtualPrice(bal, tok) ==
    LET Dr == GetD(Xp(bal))
    IN  IF Dr.st # "ok" THEN Dr
        ELSE IF tok = 0 THEN Err("ZeroDivisionError")
        ELSE Ok(PyDiv(Dr.v * PRECISION, tok))

-----------------------------------------------------------------------------
(* The pool specification: a constructed pool and any sequence of calls of *)
(* its three mutating methods.                                             *)

\* Values of A, fee and admin_fee a pool is constructed with.
AValues == {1, 10}
FeeValues == {0, 2}
AdminFeeValues == {0, 5, FEE_DENOMINATOR}
\* Balances a pool is constructed with (D given as a list).
InitBalances == {0, 2, 8}
\* Amounts of a call: none, one unit, the largest.
Amounts == {0, 1, MaxDx}

\* valid: every call so far had i # j and dx >= 0; k: the number of calls so far;
\* swaps: every call so far was an exchange; vp: the highest get_virtual_price()
\* returned before any of the calls so far (-1: none).
NoCall == [op |-> "none", st |-> "ok", valid |-> TRUE, k |-> 0, swaps |-> TRUE,
           vp |-> 0 - 1]
NoNewton == [pc |-> "idle"]
NoArb == [pc |-> "idle"]

AllPositive(bal) == \A k \in Coins : bal[k] > 0
Empty(bal, tok) == tok = 0 /\ \A k \in Coins : bal[k] = 0
InRange(bal) == \A k \in Coins : bal[k] <= MaxBal /\ bal[k] >= 0 - MaxBal

Max(a, b) == IF a >= b THEN a ELSE b

\* def __init__(self, A, D, n, p=None, tokens=None, fee, fee_mul=None, admin_fee):
\* D a list of balances, tokens = tokens or self.D().  A constructor whose D()
\* raises or hangs leaves no pool.
PoolInit(nn, As, fees, afees, bals) ==
    /\ n = nn
    /\ A \in As
    /\ fee \in fees
    /\ admin_fee \in afees
    /\ x \in [0 .. (nn - 1) -> bals]
    /\ GetD(Xp(x)).st = "ok"
    /\ tokens = GetD(Xp(x)).v
    /\ admin_balances = [k \in 0 .. (nn - 1) |-> 0]

Init ==
    /\ PoolInit(2, AValues, FeeValues, AdminFeeValues, InitBalances)
    /\ last = NoCall
    /\ newton = NoNewton
    /\ arb = NoArb

\* The call's outcome becomes the pool's state; a call that hangs never returns.
Apply(call, out) ==
    /\ last.k < MaxCalls
    /\ out.st # "hang"
    /\ InRange(out.x)
    /\ x' = out.x
    /\ tokens' = out.tokens
    /\ admin_balances' = out.admin_balances
    /\ last' = call @@ [st |-> out.st, ret |-> out.ret, pre |-> PreState,
                        k |-> last.k + 1,
                        valid |-> last.valid /\ (call.op = "exchange" =>
                                                    call.i # call.j /\ call.dx >= 0),
                        swaps |-> last.swaps /\ call.op = "exchange",
                        vp |-> LET now == VirtualPrice(x, tokens)
                               IN  IF now.st = "ok" THEN Max(last.vp, now.v)
                                   ELSE last.vp]
    /\ UNCHANGED <<poolParams, newton, arb>>

\* pool.exchange(i, j, dx), for any indices of the pool and any small dx
DoExchange ==
    \E i \in Coins, j \in Coins, dx \in Amounts \cup {0 - 1} :
        /\ tokens > 0
        /\ AllPositive(x)
        /\ Apply([op |-> "exchange", i |-> i, j |-> j, dx |-> dx], Exchange(i, j, dx))

\* pool.add_liquidity(amounts), on a pool at rest or on the empty pool
DoAddLiquidity ==
    \E amounts \in [Coins -> Amounts] :
        /\ (tokens > 0 /\ AllPositive(x)) \/ Empty(x, tokens)
        /\ Apply([op |-> "add_liquidity", amounts |-> amounts], AddLiquidity(amounts))

\* pool.remove_liquidity_one_coin(token_amount, i), 0 <= token_amount <= tokens
DoRemoveLiquidityOneCoin ==
    \E i \in Coins, token_amount \in {0, 1, tokens - 1, tokens} :
        /\ tokens > 0
        /\ AllPositive(x)
        /\ token_amount >= 0
        /\ Apply([op |-> "remove_liquidity_one_coin", i |-> i,
                  token_amount |-> token_amount],
                 RemoveLiquidityOneCoin(token_amount, i))

Next == DoExchange \/ DoAddLiquidity \/ DoRemoveLiquidityOneCoin

Spec == Init /\ [][Next]_vars

-----------------------------------------------------------------------------
(* Claims about the pool.                                                  *)

Called(op) == last.op = op
Completed(op) == last.op = op /\ last.st = "ok"

\* C3: across any sequence of exchange (i # j, dx >= 0, a dx of zero included),
\* add_liquidity and remove_liquidity_one_coin calls, no admin_balances[i] is
\* lower after a call than before it, and so none is negative.
C3_AdminBalancesNeverDecrease ==
    (last.op # "none" /\ last.valid) =>
        \A k \in Coins : /\ admin_balances[k] >= last.pre.admin_balances[k]
                         /\ admin_balances[k] >= 0

\* C4: with fee > 0 and admin_fee > 0, after any sequence of exchanges (i # j,
\* dx >= 0) get_virtual_price() is not lower than it was before any earlier
\* exchange of the sequence.
C4_VirtualPriceGrowth ==
    (Completed("exchange") /\ last.swaps /\ last.valid /\ fee > 0 /\ admin_fee > 0
        /\ VirtualPrice(x, tokens).st = "ok") =>
        VirtualPrice(x, tokens).v >= last.vp

\* C5: with fee = 0 and admin_fee = 0, an exchange(i, j, dx) with i # j and
\* dx >= 0 on a pool whose balances are all positive changes D() by at most 1.
C5_SwapInvariant ==
    (Completed("exchange") /\ last.i # last.j /\ last.dx >= 0
        /\ fee = 0 /\ admin_fee = 0 /\ AllPositive(last.pre.x)
        /\ GetD(Xp(last.pre.x)).st = "ok" /\ GetD(Xp(x)).st = "ok") =>
        Abs(GetD(Xp(x)).v - GetD(Xp(last.pre.x)).v) <= 1

\* C6: exchange(i, j, dx) with i = j or dx < 0 ends in an error and leaves x,
\* admin_balances and tokens as they were.
C6_InvalidInputsRejected ==
    (Called("exchange") /\ (last.i = last.j \/ last.dx < 0)) =>
        /\ last.st # "ok"
        /\ PreState = last.pre

\* C9: add_liquidity(amounts) with positive amounts on the empty pool (tokens = 0)
\* returns D1, the invariant of the balances after the deposit, and leaves
\* tokens = D1.
C9_FirstDeposit ==
    (Called("add_liquidity") /\ Empty(last.pre.x, last.pre.tokens)
        /\ AllPositive(last.amounts)) =>
        LET D1 == GetDMem([k \in Coins |-> last.pre.x[k] + last.amounts[k]])
        IN  /\ last.st = "ok"
            /\ D1.st = "ok"
            /\ last.ret = <<D1.v>>
            /\ tokens = D1.v

\* C10: from a constructed pool with tokens > 0 and every balance positive, after
\* any sequence of completed exchange (i # j, dx >= 0), add_liquidity and
\* remove_liquidity_one_coin (0 <= amount <= tokens) calls, tokens > 0 implies
\* that every balance is positive.
C10_BalancePositivity ==
    (last.valid /\ tokens > 0) => AllPositive(x)

-----------------------------------------------------------------------------
(* The get_D specification: the call self.D() of the constructor           *)
(* (tokens = tokens or self.D()) on a pool of two coins with positive      *)
(* balances, one pass of the while loop of get_D per step.                 *)

\* Dprev = 0; S = sum(xp); D = S
GetDEnter(xp) ==
    [pc |-> "loop", xp |-> xp, D |-> SumOver(xp, Coins), Dprev |-> 0, passes |-> 0]

InitGetD ==
    /\ n = 2
    /\ A \in AValues
    /\ fee = 0
    /\ admin_fee = 0
    /\ x \in [0 .. 1 -> 1 .. MaxXp]
    /\ tokens = 0
    /\ admin_balances = [k \in 0 .. 1 |-> 0]
    /\ last = NoCall
    /\ newton = GetDEnter(Xp(x))
    /\ arb = NoArb

\* The loop's test holds: one pass of its body.
GetDPass ==
    /\ newton.pc = "loop"
    /\ Abs(newton.D - newton.Dprev) > 1
    /\ newton.passes < MaxPasses
    /\ LET nx == GetDStep(newton.D, newton.xp)
       IN  newton' = IF nx.st = "ok"
                     THEN [newton EXCEPT !.D = nx.v, !.Dprev = newton.D,
                                         !.passes = @ + 1]
                     ELSE [newton EXCEPT !.pc = nx.st]
    /\ UNCHANGED <<poolParams, poolState, last, arb>>

\* The loop's test fails: return D, which the constructor stores as tokens.
GetDReturn ==
    /\ newton.pc = "loop"
    /\ Abs(newton.D - newton.Dprev) <= 1
    /\ newton' = [newton EXCEPT !.pc = "returned"]
    /\ tokens' = newton.D
    /\ UNCHANGED <<poolParams, x, admin_balances, last, arb>>

NextGetD == GetDPass \/ GetDReturn

SpecGetD == InitGetD /\ [][NextGetD]_vars

\* C7: for A >= 1 and positive xp, get_D makes at most 255 passes of its loop: by
\* then it has returned with |D - Dprev| <= 1 or failed with NumericNotConverged,
\* and it never iterates further.
C7_BoundedNewton ==
    newton.pc # "idle" => newton.passes <= 255

-----------------------------------------------------------------------------
(* Floats of the arbitrage driver.  A trade size or a volume limit is a    *)
(* float f >= 0 kept as the integer 2 * f, so that sizes between two       *)
(* integers exist and int() has something to cut; NaN is the one float     *)
(* that no box holds.  A price is a float kept as floor(f * PRICE_SCALE).  *)

NaN == 0 - 1
\* isnan(f)
IsNaN(f) == f = NaN
\* int(f), f >= 0
IntOf(f) == f \div 2
\* float(k)
FloatOf(k) == 2 * k

Min(a, b) == IF a <= b THEN a ELSE b

RECURSIVE ProdOver(_, _)
ProdOver(f, S) == IF S = {} THEN 1
                  ELSE LET k == CHOOSE k \in S : TRUE IN f[k] * ProdOver(f, S \ {k})

RECURSIVE Pow(_, _)
Pow(b, e) == IF e = 0 THEN 1 ELSE b * Pow(b, e - 1)

\* def dydx(self, i, j, use_fee=False), fee_mul None, on balances bal
Dydx(bal, i, j, use_fee) ==
    With(GetD(Xp(bal)), LAMBDA Dr :
    LET xp == Xp(bal)
        xi == xp[i]
        xj == xp[j]
        D_pow == Pow(Dr.v, n + 1)
        x_prod == ProdOver(xp, Coins)
        A_pow == A * Pow(n, n + 1)
        num == xj * (xi * A_pow * x_prod + D_pow)
        den == xi * (xj * A_pow * x_prod + D_pow)
        fee_factor == IF use_fee THEN fee ELSE 0
    IN  IF Dr.st # "ok" THEN Dr
        ELSE IF den = 0 THEN Err("ZeroDivisionError")
        ELSE Ok(PyDiv(num * (FEE_DENOMINATOR - fee_factor) * PRICE_SCALE,
                      den * FEE_DENOMINATOR)))

\* def dydxfee(self, i, j)
Dydxfee(bal, i, j) == Dydx(bal, i, j, TRUE)

-----------------------------------------------------------------------------
(* The simulation interface of the pool, which trader.py calls.            *)

\* pool.price(coin_in, coin_out, use_fee): dydx of the pool
Price(pl, i, j, use_fee) == Dydx(pl.x, i, j, use_fee)

\* pool.trade(coin_in, coin_out, size): exchange on the pool
Trade(pl, i, j, size) == ExchangeOn(pl, i, j, size)

\* with pool.use_snapshot_context(): the pool's triple on leaving the block, on
\* any path, given the triple on entering it and the triple the block left.
UseSnapshotContext(before, inside) == before

\* utils.get_pairs(n): the pairs (i, j) with i < j, in lexicographic order
GetPairs ==
    LET S == {q \in Coins \X Coins : q[1] < q[2]}
        Before(q, r) == q[1] < r[1] \/ (q[1] = r[1] /\ q[2] < r[2])
    IN  [k \in 1 .. Cardinality(S) |->
            CHOOSE q \in S : Cardinality({r \in S : Before(r, q)}) = k - 1]

Triple(o) == [x |-> o.x, tokens |-> o.tokens, admin_balances |-> o.admin_balances]

-----------------------------------------------------------------------------
(* The residual functions.  The result of an evaluation: st and v, the     *)
(* value returned or the error raised; inside, the pool's triple at the    *)
(* end of the with block; pool, the pool's triple after the evaluation.    *)

\* def post_trade_price_error(dx, i, j, price_target), dx a whole number
PostTradePriceError(pl, dx, i, j, price_target) ==
    With(IF dx > 0 THEN Trade(pl, i, j, dx)
         ELSE Outcome("ok", pl.x, pl.admin_balances, pl.tokens, <<>>),
         LAMBDA t :
            With(IF t.st = "ok" THEN Price(Triple(t), i, j, TRUE) ELSE Err(t.st),
                 LAMBDA price :
                    [st |-> price.st, v |-> price.v - price_target,
                     inside |-> Triple(t),
                     pool |-> UseSnapshotContext(pl, Triple(t))]))

\* The trade loop run over the pairs from the last to the first.
RECURSIVE TradeAll_LastFirst(_, _, _, _)
TradeAll_LastFirst(pl, dxs, coins, k) ==
    IF k > Len(coins) THEN [st |-> "ok", pool |-> pl]
    ELSE LET m == Len(coins) + 1 - k
             dx == IF IsNaN(dxs[m]) THEN 0 ELSE IntOf(dxs[m])
         IN  IF ~(dx > 0) THEN TradeAll_LastFirst(pl, dxs, coins, k + 1)
             ELSE With(Trade(pl, coins[m][1], coins[m][2], dx),
                       LAMBDA t :
                          IF t.st = "ok"
                          THEN TradeAll_LastFirst(Triple(t), dxs, coins, k + 1)
                          ELSE [st |-> t.st, pool |-> pl])

\* for k, pair in enumerate(coins): ... if dx > 0: pool.trade(i, j, dx)
RECURSIVE TradeAll(_, _, _, _)
TradeAll(pl, dxs, coins, k) ==
    IF k > Len(coins) THEN [st |-> "ok", pool |-> pl]
    ELSE LET dx == IF IsNaN(dxs[k]) THEN 0 ELSE IntOf(dxs[k])
         IN  IF ~(dx > 0) THEN TradeAll(pl, dxs, coins, k + 1)
             ELSE With(Trade(pl, coins[k][1], coins[k][2], dx),
                       LAMBDA t :
                          IF t.st = "ok" THEN TradeAll(Triple(t), dxs, coins, k + 1)
                          ELSE [st |-> t.st, pool |-> pl])

\* post_trade_price_error_multi with its body run on the live pool, outside any
\* snapshot scope.
PostTradePriceErrorMulti_NoSnapshot(pl, dxs, price_targets, coins) ==
    With(TradeAll(pl, dxs, coins, 1),
         LAMBDA t :
            [st |-> t.st,
             v |-> [k \in 1 .. Len(coins) |->
                        Price(t.pool, coins[k][1], coins[k][2], TRUE).v
                            - price_targets[k]],
             inside |-> t.pool,
             pool |-> t.pool])

\* def post_trade_price_error_multi(dxs, price_targets, coins)
PostTradePriceErrorMulti(pl, dxs, price_targets, coins) ==
    With(TradeAll(pl, dxs, coins, 1),
         LAMBDA t :
            With([k \in 1 .. Len(coins) |->
                    Price(t.pool, coins[k][1], coins[k][2], TRUE)],
                 LAMBDA price :
                    LET bad == {k \in 1 .. Len(coins) : price[k].st # "ok"}
                        st == IF t.st # "ok" THEN t.st
                              ELSE IF bad # {}
                                   THEN price[CHOOSE k \in bad :
                                                \A m \in bad : k <= m].st
                              ELSE "ok"
                    IN  [st |-> st,
                         v |-> [k \in 1 .. Len(coins) |->
                                    price[k].v - price_targets[k]],
                         inside |-> t.pool,
                         pool |-> UseSnapshotContext(pl, t.pool)]))

-----------------------------------------------------------------------------
(* The arbitrage specification: one call of                                *)
(* multipair_optimal_arbitrage(pool, prices, limits) on a pool of three    *)
(* coins.  root_scalar and least_squares are any caller of the residual    *)
(* they are given: every evaluation is one step, at any point of the       *)
(* bracket or of the box, and the call ends with any root, any point of    *)
(* the box, or an error.                                                   *)

\* Values of A, of the balances, of the market prices and of the volume limits.
\* The pools: a balanced one, and one so small that a trade of one unit can fail
\* exchange's assert dy >= 0.
ArbAValues == {2}
ArbBalances == {1, 2, 4}
ArbPools == {[k \in 0 .. 2 |-> 4], [k \in 0 .. 2 |-> IF k = 2 THEN 2 ELSE 1]}
PriceValues == {95, 105}
LimitValues == {0, 2 * MaxLimit + 1}

\* eval: the last evaluation of a residual, its st and whether its trades changed
\* the pool inside the with block; exc: the error that entered the except block;
\* failed: the except block has run.
NoEval == [st |-> "none", traded |-> FALSE]

\* limited_init_trades with an upper bound of limit + 2 in place of limit + 1
Limited_WiderBound(init_trades, limits) ==
    [k \in 1 .. Min(Len(init_trades), Len(limits)) |->
        LET limit == IntOf(limits[k])
        IN  <<Min(init_trades[k][1], limit), init_trades[k][2], init_trades[k][3],
              0, limit + 2>>]

\* limited_init_trades, before the sort
Limited(init_trades, limits) ==
    [k \in 1 .. Min(Len(init_trades), Len(limits)) |->
        LET limit == IntOf(limits[k])
        IN  <<Min(init_trades[k][1], limit), init_trades[k][2], init_trades[k][3],
              0, limit + 1>>]

\* sorted(s, reverse=True, key=lambda t: t[0]): stable, equal sizes keep their order
RECURSIVE Sorted(_)
Sorted(s) ==
    IF s = <<>> THEN <<>>
    ELSE LET r == Sorted(SubSeq(s, 1, Len(s) - 1))
             t == s[Len(s)]
             pos == Cardinality({m \in 1 .. Len(r) : r[m][1] >= t[1]})
         IN  SubSeq(r, 1, pos) \o <<t>> \o SubSeq(r, pos + 1, Len(r))

Column(s, c) == [k \in 1 .. Len(s) |-> s[k][c]]

\* The direction of pair k in get_arb_trades: dir is "in" when a trade of the pair
\* is to be sized, "none" when none is, or the error of a price call.
Direction(pl, prices, k) ==
    LET i == GetPairs[k][1]
        j == GetPairs[k][2]
        inverse == PyDiv(PRICE_SCALE * PRICE_SCALE, prices[k])
    IN  With(Price(pl, i, j, TRUE), LAMBDA pij :
            IF pij.st # "ok" THEN [dir |-> pij.st]
            ELSE IF pij.v - prices[k] > 0
                 THEN [dir |-> "in", in_index |-> i, out_index |-> j,
                       price |-> prices[k]]
            ELSE With(Price(pl, j, i, TRUE), LAMBDA pji :
                    IF pji.st # "ok" THEN [dir |-> pji.st]
                    ELSE IF pji.v - inverse > 0
                         THEN [dir |-> "in", in_index |-> j, out_index |-> i,
                               price |-> inverse]
                    ELSE [dir |-> "none"]))

\* The box of the solver, bounds=(lo, hi), both ends included, and the NaNs.
Box(lo, hi) ==
    {dxs \in [1 .. Len(hi) -> NaN .. FloatOf(MaxLimit + 1)] :
        \A k \in 1 .. Len(hi) :
            IsNaN(dxs[k]) \/ (FloatOf(lo[k]) <= dxs[k] /\ dxs[k] <= FloatOf(hi[k]))}

\* for k, dx in enumerate(dxs): the trades of a solver result
RECURSIVE Format(_, _, _)
Format(dxs, coins, k) ==
    IF k > Len(dxs) THEN <<>>
    ELSE IF IsNaN(dxs[k]) \/ ~(IntOf(dxs[k]) > 0) THEN Format(dxs, coins, k + 1)
    ELSE <<<<coins[k][1], coins[k][2], IntOf(dxs[k])>>>> \o Format(dxs, coins, k + 1)

\* The call multipair_optimal_arbitrage(pool, prices, limits), before its first line.
ArbEnter(prices, limits) ==
    [pc |-> "get_arb_trades", prices |-> prices, limits |-> limits,
     pool0 |-> PreState, k |-> 1, init_trades |-> <<>>, probes |-> 0,
     sizes |-> <<>>, coins |-> <<>>, price_targets |-> <<>>, lo |-> <<>>, hi |-> <<>>,
     trades |-> <<>>, errors |-> <<>>, res |-> <<>>, failed |-> FALSE,
     exc |-> "none", eval |-> NoEval]

InitArb ==
    /\ PoolInit(3, ArbAValues, FeeValues, {5}, ArbBalances)
    /\ x \in ArbPools
    /\ last = NoCall
    /\ newton = NoNewton
    /\ arb \in {ArbEnter(prices, limits) :
                    prices \in [1 .. 3 -> PriceValues], limits \in [1 .. 3 -> LimitValues]}

\* An evaluation of a residual: its effect on the pool is all it leaves there.
Evaluated(e) ==
    /\ e.st # "hang"
    /\ x' = e.pool.x
    /\ tokens' = e.pool.tokens
    /\ admin_balances' = e.pool.admin_balances

EvalOf(e) == [st |-> e.st, traded |-> e.inside # PreState]

\* trades.append(t) in get_arb_trades; after the last pair, get_arb_trades returns
\* and the limits are applied and the trades sorted.  init_trades is not read
\* again after that, and the model forgets it.
AppendTrade(t) ==
    LET init_trades == Append(arb.init_trades, t)
        limited_init_trades == Sorted(Limited(init_trades, arb.limits))
    IN  IF arb.k < Len(GetPairs)
        THEN [arb EXCEPT !.init_trades = init_trades, !.k = @ + 1, !.probes = 0,
                         !.eval = NoEval]
        ELSE [arb EXCEPT !.pc = "least_squares", !.init_trades = <<>>,
                         !.probes = 0, !.eval = NoEval,
                         !.sizes = Column(limited_init_trades, 1),
                         !.coins = Column(limited_init_trades, 2),
                         !.price_targets = Column(limited_init_trades, 3),
                         !.lo = Column(limited_init_trades, 4),
                         !.hi = Column(limited_init_trades, 5)]

\* The pair has no direction: trades.append((0, (i, j), prices[k])).  A price call
\* that raises ends get_arb_trades and the whole call.
GetArbTradesNoTrade ==
    /\ arb.pc = "get_arb_trades"
    /\ \E d \in {Direction(PreState, arb.prices, arb.k)} :
           /\ d.dir \notin {"in", "hang"}
           /\ arb' = IF d.dir = "none"
                     THEN AppendTrade(<<0, GetPairs[arb.k], arb.prices[arb.k]>>)
                     ELSE [arb EXCEPT !.pc = "raised"]
    /\ UNCHANGED <<poolParams, poolState, last, newton>>

\* root_scalar evaluates post_trade_price_error at a dx of the bracket.  An error
\* of the evaluation is no ValueError: it ends the whole call.
RootScalarProbe ==
    /\ arb.pc = "get_arb_trades"
    /\ arb.probes < MaxProbes
    /\ \E d \in {Direction(PreState, arb.prices, arb.k)} :
           /\ d.dir = "in"
           /\ \E dx \in 0 .. MaxHigh :
                \E e \in {PostTradePriceError(PreState, dx, d.in_index, d.out_index,
                                                d.price)} :
                    /\ Evaluated(e)
                    /\ arb' = [arb EXCEPT !.probes = @ + 1, !.eval = EvalOf(e),
                                          !.pc = IF e.st = "ok" THEN @ ELSE "raised"]
    /\ UNCHANGED <<poolParams, last, newton>>

\* root_scalar returns a root of the bracket: size = int(res.root)
RootScalarReturn ==
    /\ arb.pc = "get_arb_trades"
    /\ \E d \in {Direction(PreState, arb.prices, arb.k)} :
           /\ d.dir = "in"
           /\ \E size \in 0 .. MaxHigh :
                arb' = AppendTrade(<<size, <<d.in_index, d.out_index>>, d.price>>)
    /\ UNCHANGED <<poolParams, poolState, last, newton>>

\* root_scalar raises ValueError: size = 0
RootScalarValueError ==
    /\ arb.pc = "get_arb_trades"
    /\ \E d \in {Direction(PreState, arb.prices, arb.k)} :
           /\ d.dir = "in"
           /\ arb' = AppendTrade(<<0, <<d.in_index, d.out_index>>, d.price>>)
    /\ UNCHANGED <<poolParams, poolState, last, newton>>

\* least_squares evaluates post_trade_price_error_multi at a point of the box; an
\* error of the evaluation leaves least_squares and enters the except block.
LeastSquaresProbe ==
    /\ arb.pc = "least_squares"
    /\ arb.probes < MaxProbes
    /\ \E dxs \in Box(arb.lo, arb.hi) :
        \E e \in {PostTradePriceErrorMulti(PreState, dxs, arb.price_targets,
                                            arb.coins)} :
            /\ Evaluated(e)
            /\ arb' = [arb EXCEPT !.probes = @ + 1, !.eval = EvalOf(e),
                                  !.pc = IF e.st = "ok" THEN @ ELSE "except",
                                  !.exc = IF e.st = "ok" THEN @ ELSE e.st]
    /\ UNCHANGED <<poolParams, last, newton>>

\* least_squares itself raises.
LeastSquaresRaise ==
    /\ arb.pc = "least_squares"
    /\ arb' = [arb EXCEPT !.pc = "except", !.exc = "least_squares"]
    /\ UNCHANGED <<poolParams, poolState, last, newton>>

\* least_squares returns res, res.x a point of the box and res.fun the residual
\* there; the trades are formatted and the call returns.
LeastSquaresReturn ==
    /\ arb.pc = "least_squares"
    /\ \E dxs \in Box(arb.lo, arb.hi) :
        \E e \in {PostTradePriceErrorMulti(PreState, dxs, arb.price_targets,
                                            arb.coins)} :
            /\ e.st = "ok"
            /\ Evaluated(e)
            /\ arb' = [arb EXCEPT !.pc = "done", !.eval = EvalOf(e), !.probes = 0,
                                  !.res = [x |-> dxs, fun |-> e.v],
                                  !.trades = Format(dxs, arb.coins, 1),
                                  !.errors = e.v]
    /\ UNCHANGED <<poolParams, last, newton>>

\* The except block with the residual taken at the seed sizes, not at zero.
ExceptBlock_AtSizes ==
    /\ arb.pc = "except"
    /\ \E e \in {PostTradePriceErrorMulti(PreState,
                                         [k \in 1 .. Len(arb.sizes) |->
                                            FloatOf(arb.sizes[k])],
                                         arb.price_targets, arb.coins)} :
           /\ Evaluated(e)
           /\ arb' = IF e.st = "ok"
                     THEN [arb EXCEPT !.pc = "done", !.failed = TRUE, !.probes = 0,
                                      !.eval = EvalOf(e), !.errors = e.v, !.res = <<>>]
                     ELSE [arb EXCEPT !.pc = "raised", !.eval = EvalOf(e)]
    /\ UNCHANGED <<poolParams, last, newton>>

\* except Exception: errors = array(post_trade_price_error_multi([0] * len(sizes),
\* price_targets, coins)); res = []; and the call returns.
ExceptBlock ==
    /\ arb.pc = "except"
    /\ \E e \in {PostTradePriceErrorMulti(PreState,
                                         [k \in 1 .. Len(arb.sizes) |-> FloatOf(0)],
                                         arb.price_targets, arb.coins)} :
           /\ Evaluated(e)
           /\ arb' = IF e.st = "ok"
                     THEN [arb EXCEPT !.pc = "done", !.failed = TRUE, !.probes = 0,
                                      !.eval = EvalOf(e), !.errors = e.v, !.res = <<>>]
                     ELSE [arb EXCEPT !.pc = "raised", !.eval = EvalOf(e)]
    /\ UNCHANGED <<poolParams, last, newton>>

NextArb ==
    \/ GetArbTradesNoTrade
    \/ RootScalarProbe
    \/ RootScalarReturn
    \/ RootScalarValueError
    \/ LeastSquaresProbe
    \/ LeastSquaresRaise
    \/ LeastSquaresReturn
    \/ ExceptBlock

SpecArb == InitArb /\ [][NextArb]_vars

-----------------------------------------------------------------------------
(* Claims about the arbitrage driver.                                      *)

\* The place of the coin pair {i, j} in get_pairs, and so in prices and limits.
PairIndex(i, j) ==
    CHOOSE k \in 1 .. Len(GetPairs) : GetPairs[k] = <<Min(i, j), Max(i, j)>>

\* floor(limit_pair * 10**18) of the coin pair of a trade
LimitOf(trade) == IntOf(arb.limits[PairIndex(trade[1], trade[2])])

\* The place of a trade's coin pair in the sorted order of the solver.
PlaceOf(trade) ==
    CHOOSE k \in 1 .. Len(arb.coins) : arb.coins[k] = <<trade[1], trade[2]>>

Returned == arb.pc = "done" /\ ~arb.failed

\* C1: after every evaluation of post_trade_price_error and of
\* post_trade_price_error_multi, whether it returned or raised, and so throughout
\* and after get_arb_trades and multipair_optimal_arbitrage, the pool's x,
\* admin_balances and tokens are those the pool had when the call began.
C1_SnapshotPurity ==
    arb.pc # "idle" => PreState = arb.pool0

\* An evaluation whose first trades changed the pool and whose later trade raised
\* has left the pool as it was.
C1_Witness ==
    /\ arb.pc = "except"
    /\ arb.eval.st = "AssertionError"
    /\ arb.eval.traded
    /\ PreState = arb.pool0

C8_SolverFailureRecovery ==
    /\ (arb.pc = "done" /\ arb.failed) =>
        /\ arb.trades = <<>>
        /\ arb.res = <<>>
        /\ Len(arb.errors) = Len(arb.coins)
        /\ \A k \in 1 .. Len(arb.coins) :
            arb.errors[k] = Dydxfee(x, arb.coins[k][1], arb.coins[k][2]).v
                                - arb.price_targets[k]
    /\ arb.pc = "raised" => arb.coins = <<>>

\* The solve failed by a trade of an evaluation that raised, the seeds were not all
\* zero, and the call has returned.
C8_Witness ==
    /\ arb.pc = "done"
    /\ arb.failed
    /\ arb.exc = "AssertionError"
    /\ \E k \in 1 .. Len(arb.sizes) : arb.sizes[k] > 0

\* dx of place k in an evaluation at dxs: 0 for a NaN, int(dxs[k]) otherwise
DxOf(dxs, k) == IF IsNaN(dxs[k]) THEN 0 ELSE IntOf(dxs[k])

\* The pool pl after the trade of place k of the sorted order, if dx > 0
AfterTrade(pl, dxs, k) ==
    IF DxOf(dxs, k) > 0
    THEN Triple(Trade(pl, arb.coins[k][1], arb.coins[k][2], DxOf(dxs, k)))
    ELSE pl

\* The pool inside the with block once the trades of places 1, 2, 3 are made in
\* that order, and once they are made in the order 3, 2, 1.
InSortedOrder(dxs) ==
    AfterTrade(AfterTrade(AfterTrade(arb.pool0, dxs, 1), dxs, 2), dxs, 3)
InOppositeOrder(dxs) ==
    AfterTrade(AfterTrade(AfterTrade(arb.pool0, dxs, 3), dxs, 2), dxs, 1)

\* The point of the evaluation whose residual the call returns as errors: res.x,
\* or [0] * len(sizes) when the solve failed
ErrorsAt ==
    IF arb.failed THEN [k \in 1 .. Len(arb.sizes) |-> FloatOf(0)] ELSE arb.res.x

\* The price target of a coin pair as get_arb_trades sets it: the market price of
\* the pair, or its inverse when the trade goes from the second coin to the first
TargetOf(pair) ==
    IF pair[1] < pair[2] THEN arb.prices[PairIndex(pair[1], pair[2])]
    ELSE PyDiv(PRICE_SCALE * PRICE_SCALE, arb.prices[PairIndex(pair[1], pair[2])])

\* The seeds are sorted: sizes descend, every coin pair has one place, and each
\* place holds its own pair's target and bounds and a size within the limit.
SeedsSorted ==
    /\ Len(arb.sizes) = Len(GetPairs)
    /\ Len(arb.coins) = Len(GetPairs)
    /\ Len(arb.price_targets) = Len(GetPairs)
    /\ Len(arb.lo) = Len(GetPairs)
    /\ Len(arb.hi) = Len(GetPairs)
    /\ \A k \in 1 .. Len(arb.sizes) - 1 : arb.sizes[k] >= arb.sizes[k + 1]
    /\ \A q \in 1 .. Len(GetPairs) :
        Cardinality({k \in 1 .. Len(arb.coins) :
                        PairIndex(arb.coins[k][1], arb.coins[k][2]) = q}) = 1
    /\ \A k \in 1 .. Len(arb.coins) :
        /\ arb.sizes[k] <= LimitOf(arb.coins[k])
        /\ arb.price_targets[k] = TargetOf(arb.coins[k])
        /\ arb.lo[k] = 0
        /\ arb.hi[k] = LimitOf(arb.coins[k]) + 1

\* The step that sorts: the seed (size, pair, price_target) of place k of
\* get_arb_trades has, after the sort, one place that holds its pair, its size
\* clamped to the limit of place k, its target and its bounds.
SeedsKept ==
    (arb.pc = "get_arb_trades" /\ arb'.pc = "least_squares") =>
        \A k \in 1 .. Len(arb.init_trades) :
            \E m \in 1 .. Len(arb'.coins) :
                /\ arb'.coins[m] = arb.init_trades[k][2]
                /\ arb'.sizes[m] = Min(arb.init_trades[k][1], IntOf(arb.limits[k]))
                /\ arb'.price_targets[m] = arb.init_trades[k][3]
                /\ arb'.lo[m] = 0
                /\ arb'.hi[m] = IntOf(arb.limits[k]) + 1

\* The residual the call returns: one per coin pair, residual k the price of the
\* pair of place k, on the pool with the trades made in sorted order, minus the
\* target of place k.
ResidualInOrder ==
    arb.pc = "done" =>
        /\ Len(arb.errors) = Len(GetPairs)
        /\ \A k \in 1 .. Len(arb.coins) :
            arb.errors[k] =
                Price(InSortedOrder(ErrorsAt), arb.coins[k][1], arb.coins[k][2],
                      TRUE).v - arb.price_targets[k]

\* C11: multipair_optimal_arbitrage sorts the seed trades by clamped size in
\* descending order, each pair's price target and bounds staying with it; the
\* evaluation of the residual makes the trades with dx > 0 in that sorted order,
\* a NaN or a dx that is not positive being no trade, and returns one residual
\* per coin pair, zero-size pairs included, residual k being that of the k-th pair
\* of the sorted order.
C11_SortedResidual ==
    /\ [][SeedsKept]_vars
    /\ [](arb.pc \in {"least_squares", "except", "done"} => SeedsSorted)
    /\ []ResidualInOrder

\* The call has returned from a solve at a point with two trades and a NaN, one
\* seed being of size zero and the seeds not all equal, where the trades made in
\* the opposite order leave another pool and other residuals.
C11_Witness ==
    /\ Returned
    /\ \E k \in 1 .. Len(arb.sizes) : arb.sizes[k] = 0
    /\ arb.sizes[1] > arb.sizes[Len(arb.sizes)]
    /\ \E k \in 1 .. Len(arb.coins) : IsNaN(arb.res.x[k])
    /\ Cardinality({k \in 1 .. Len(arb.coins) : DxOf(arb.res.x, k) > 0}) = 2
    /\ InOppositeOrder(arb.res.x) # InSortedOrder(arb.res.x)
    /\ \E k \in 1 .. Len(arb.coins) :
        arb.errors[k] # Price(InOppositeOrder(arb.res.x), arb.coins[k][1],
                              arb.coins[k][2], TRUE).v - arb.price_targets[k]

====
